---------------------------- MODULE Spec2Model ----------------------------
(***************************************************************************)
(* Model of the alg-runner dispatcher: the algorithm registry              *)
(* (app/algorithms/__init__.py), the FIFO strategy (app/algorithms/        *)
(* fifo.py), the priority strategy (app/algorithms/prioq.py), the junction *)
(* and car model (app/models/schema.py), the road network (app/models/     *)
(* road_network.py) and the /setup and /dispatch routes (app/routes/       *)
(* algorithms.py).                                                         *)
(*                                                                         *)
(* Units.  Lengths and coordinates are integers in tenths of a map unit,   *)
(* so junction_size 1 is 10, junction_buffer_zone 1.5 is 15.  Speeds are   *)
(* integers in units per second.  Car positions lie on the two axes        *)
(* through the centre of the junction they approach, so the Euclidean      *)
(* distance of schema.py is an exact integer.                              *)
(*                                                                         *)
(* Spec: one behaviour is one request.  Init draws the request, the actions *)
(* run the handler and the chosen algorithm statement block by statement   *)
(* block, and the behaviour ends when the call has returned or raised.     *)
(*                                                                         *)
(* Server: one process serving /setup and /dispatch requests one after the *)
(* other.  Threads: the same process with a /setup request (on the event   *)
(* loop) and a /dispatch request (on a worker thread) in progress at the   *)
(* same time.  Kinematics: one call of max_target_speed                    *)
(* (app/utils/distance.py) on arguments drawn from small sets.             *)
(***************************************************************************)
EXTENDS Integers, Sequences, FiniteSets, TLC

VARIABLES
    state_junctions,            \* app.state.junctions
    state_roads,                \* app.state.roads (the roads of the RoadNetwork)
    state_cars_cache,           \* app.state.cars_cache
    state_hyperparams,          \* app.state.hyperparams
    payload,                    \* the DispatchRequest
    via,                        \* "route": POST /dispatch; "direct": algorithm(cars, junctions)
    pc,                         \* position in the handler / algorithm
    algorithm,                  \* what get_algorithm returned
    junctions,                  \* the junction list handed to the algorithm
    cars,                       \* the Car objects of payload.cars, mutated in place
    cars_name,                  \* indices of the objects the local name `cars` of prioq.dispatch is bound to
    jidx,                       \* position of `for junction in junctions` in prioq.dispatch
    road_cars,                  \* prioq: road_id -> cars on that road, in insertion order
    is_car_inside,              \* prioq: a car is inside the current junction
    waiting_cars,               \* prioq: candidates of the current junction
    taken_up_segments,          \* prioq: segments granted at the current junction
    prev_car_speed_per_road,    \* prioq: road_id -> speed of the previous car
    prev_car_distance_per_road, \* prioq: road_id -> distance of the previous car
    admissions,                 \* history of the admission loop: who was popped, its width, the decision
    raised,                     \* the exception that ended the call, or "none"
    retval,                     \* what the algorithm returned
    response,                   \* the HTTP response of the route
    setup_pc,                   \* position in the /setup handler
    setup_payload,              \* the SetupRequest
    setup_key,                  \* position of `for key, value in payload.car_targets.items()`
    seen,                       \* what the /dispatch handler has read of app.state
    before,                     \* app.state when the request in progress arrived
    log,                        \* the requests answered so far
    committed,                  \* app.state at start-up and after each answered /setup
    query_returns,              \* what STRtree.query of the installed shapely returns
    kinematics                  \* a call of max_target_speed: its arguments and how it ended

vars == <<state_junctions, state_roads, state_cars_cache, state_hyperparams, payload, via, pc,
          algorithm, junctions, cars, cars_name, jidx, road_cars, is_car_inside,
          waiting_cars, taken_up_segments, prev_car_speed_per_road,
          prev_car_distance_per_road, admissions, raised, retval, response,
          setup_pc, setup_payload, setup_key, seen, before, log, committed, query_returns,
          kinematics>>

None == "None"

-----------------------------------------------------------------------------
(* Bounds of the model *)

\* longest car list of a priority request
MaxCarsPrio == 2

\* longest car list of a FIFO call
MaxCarsFifo == 3

\* the number of requests a server is sent one after the other
MaxRequests == 3

\* the number of requests a server is sent without waiting for the answers
MaxOverlapping == 2

-----------------------------------------------------------------------------
(* Program constants *)

\* Junction.junction_size default (1 unit)
JunctionSize == 10

\* prioq.dispatch junction_buffer_zone default (1.5 units)
JunctionBufferZone == 15

\* fifo.dispatch speed_decay default
SpeedDecay == 3

\* fifo.dispatch floor of a follower's speed
FifoFloor == 1

-----------------------------------------------------------------------------
(* Topology used by the requests *)

J1 == [junction_id |-> "J1", x |-> 0, y |-> 0, junction_size |-> JunctionSize,
       connected_roads_ids |-> <<"N", "E", "S", "W">>]

J2 == [junction_id |-> "J2", x |-> 200, y |-> 0, junction_size |-> JunctionSize,
       connected_roads_ids |-> <<"E", "S">>]

Topology == <<J1, J2>>

\* Road.recommended_speed of the road objects the cars carry
RecommendedSpeed(road_id) ==
    CASE road_id = "N" -> 10
      [] road_id = "E" -> 5
      [] road_id = "S" -> 0

-----------------------------------------------------------------------------
(* app/algorithms/__init__.py *)

\* Names are sequences of ASCII codes, so that letter case is something
\* str.lower() really changes.
FifoKey == <<102, 105, 102, 111>>

PriorityKey == <<112, 114, 105, 111, 114, 105, 116, 121>>

\* str.lower() on one ASCII character
LowerChar(c) == IF c >= 65 /\ c <= 90 THEN c + 32 ELSE c

\* str.lower()
Lower(name) == [i \in 1..Len(name) |-> LowerChar(name[i])]

\* _ALG_REGISTRY
ALG_REGISTRY == [k \in {FifoKey, PriorityKey} |-> IF k = FifoKey THEN "fifo" ELSE "priority"]

\* a mutant of get_algorithm
get_algorithm_case_sensitive(name) ==
    IF name \in DOMAIN ALG_REGISTRY THEN ALG_REGISTRY[name] ELSE "fifo"

\* a mutant of get_algorithm
get_algorithm_default_priority(name) ==
    IF Lower(name) \in DOMAIN ALG_REGISTRY THEN ALG_REGISTRY[Lower(name)] ELSE "priority"

\* _ALG_REGISTRY.get(name.lower(), fifo_dispatch)
get_algorithm(name) ==
    IF Lower(name) \in DOMAIN ALG_REGISTRY THEN ALG_REGISTRY[Lower(name)] ELSE "fifo"

-----------------------------------------------------------------------------
(* app/models/schema.py *)

Abs(n) == IF n < 0 THEN -n ELSE n

\* the exact square root; positions are chosen so that it exists
ISqrt(n, hi) == CHOOSE r \in 0..hi : r * r = n

\* a junction of the list has this id
HasJunction(js, id) == \E k \in 1..Len(js) : js[k].junction_id = id

\* the first junction of a list with this id
JunctionById(js, id) == js[CHOOSE k \in 1..Len(js) :
                              /\ js[k].junction_id = id
                              /\ \A m \in 1..(k - 1) : js[m].junction_id # id]

\* Car.road: the id of the Road object the car carries, None when it carries none
road(c) == IF c.resolved /\ c.road_id # None THEN c.road_id ELSE None

\* Car.next_junction is set: a resolved car carries the Junction object
\* named by its next_junction_id
has_next_junction(c) == c.resolved /\ HasJunction(Topology, c.next_junction_id)

\* Car.next_junction
next_junction(c) == JunctionById(Topology, c.next_junction_id)

\* Junction.is_point_inside: the default polygon is the square of side
\* junction_size around (x, y); Polygon.contains excludes the boundary
is_point_inside(j, px, py) ==
    /\ 2 * Abs(px - j.x) < j.junction_size
    /\ 2 * Abs(py - j.y) < j.junction_size

\* the index loop of crossing_segments_count: the last position of road_id, or -1
RingIndex(ring, road_id) ==
    IF \E i \in 1..Len(ring) : ring[i] = road_id
    THEN (CHOOSE i \in 1..Len(ring) :
              /\ ring[i] = road_id
              /\ \A k \in 1..Len(ring) : ring[k] = road_id => k <= i) - 1
    ELSE -1

\* a mutant of crossing_segments_count: the distance of the two positions
crossing_segments_count_unsigned(j, start_road_id, target_road_id) ==
    LET ring == j.connected_roads_ids
        start_index == RingIndex(ring, start_road_id)
        target_index == RingIndex(ring, target_road_id)
    IN  IF Len(ring) = 0 THEN 0
        ELSE IF start_index = -1 \/ target_index = -1 THEN 0
        ELSE Abs(target_index - start_index)

\* Junction.crossing_segments_count
crossing_segments_count(j, start_road_id, target_road_id) ==
    LET ring == j.connected_roads_ids
        start_index == RingIndex(ring, start_road_id)
        target_index == RingIndex(ring, target_road_id)
    IN  IF Len(ring) = 0 THEN 0
        ELSE IF start_index = -1 \/ target_index = -1 THEN 0
        ELSE IF target_index >= start_index THEN target_index - start_index
        ELSE Len(ring) - (start_index - target_index)

\* the None that distance_from_next_junction returns
NoDistance == -1

\* Car.distance_from_next_junction(simple_mode=True)
distance_from_next_junction(c) ==
    IF ~has_next_junction(c) \/ road(c) = None THEN NoDistance
    ELSE LET dx == c.x - next_junction(c).x
             dy == c.y - next_junction(c).y
         IN  ISqrt(dx * dx + dy * dy, Abs(dx) + Abs(dy))

-----------------------------------------------------------------------------
(* app/utils: sq_distance_from_junction.  Car.next_junction_x and           *)
(* Car.next_junction_y are the coordinates of the junction named by        *)
(* next_junction_id.                                                       *)

sq_distance_from_junction(c) ==
    LET j == JunctionById(Topology, c.next_junction_id)
    IN  (c.x - j.x) * (c.x - j.x) + (c.y - j.y) * (c.y - j.y)

-----------------------------------------------------------------------------
(* list.sort(key=...): stable, on (key, index) pairs *)

Range(f) == {f[i] : i \in DOMAIN f}

Max(a, b) == IF a >= b THEN a ELSE b

Min(a, b) == IF a <= b THEN a ELSE b

Front(q) == SubSeq(q, 1, Len(q) - 1)

RECURSIVE InsertAsc(_, _)
InsertAsc(sorted, p) ==
    IF Len(sorted) = 0 THEN <<p>>
    ELSE IF sorted[Len(sorted)].k <= p.k THEN Append(sorted, p)
    ELSE Append(InsertAsc(Front(sorted), p), sorted[Len(sorted)])

RECURSIVE InsertDesc(_, _)
InsertDesc(sorted, p) ==
    IF Len(sorted) = 0 THEN <<p>>
    ELSE IF sorted[Len(sorted)].k >= p.k THEN Append(sorted, p)
    ELSE Append(InsertDesc(Front(sorted), p), sorted[Len(sorted)])

\* list.sort(key): ascending, equal keys keep their order
RECURSIVE SortAsc(_)
SortAsc(ps) ==
    IF Len(ps) = 0 THEN <<>> ELSE InsertAsc(SortAsc(Front(ps)), ps[Len(ps)])

\* list.sort(key, reverse=True): descending, equal keys keep their order
RECURSIVE SortDesc(_)
SortDesc(ps) ==
    IF Len(ps) = 0 THEN <<>> ELSE InsertDesc(SortDesc(Front(ps)), ps[Len(ps)])

\* the keys of a dict filled by setdefault, in insertion order
RECURSIVE Dedup(_)
Dedup(q) ==
    IF Len(q) = 0 THEN <<>>
    ELSE LET d == Dedup(Front(q))
         IN  IF q[Len(q)] \in Range(d) THEN d ELSE Append(d, q[Len(q)])

\* dict.setdefault(k, v), as the dict it leaves
setdefault(d, k, v) == IF k \in DOMAIN d THEN d ELSE d @@ (k :> v)

\* the indices of a car list, in list order
Indices(cs) == [i \in 1..Len(cs) |-> i]

-----------------------------------------------------------------------------
(* app/algorithms/fifo.py *)

\* a mutant of fifo_follower_speed: the floor is forgotten
fifo_follower_speed_no_floor(base_speed, i, speed_decay) == base_speed - i * speed_decay

\* a mutant of fifo_follower_speed: every follower decays once
fifo_follower_speed_flat(base_speed, i, speed_decay) == Max(FifoFloor, base_speed - speed_decay)

\* max(1.0, base_speed - i * speed_decay)
fifo_follower_speed(base_speed, i, speed_decay) == Max(FifoFloor, base_speed - i * speed_decay)

\* queue = [car for car in cars if car.next_junction_id == junction.junction_id],
\* sorted by sq_distance_from_junction
fifo_queue(cs, junction) ==
    LET members == SelectSeq(Indices(cs),
                             LAMBDA i : cs[i].next_junction_id = junction.junction_id)
        sorted == SortAsc([n \in 1..Len(members) |->
                              [k |-> sq_distance_from_junction(cs[members[n]]), i |-> members[n]]])
    IN  [n \in 1..Len(sorted) |-> sorted[n].i]

\* the body of `for junction in junctions`
fifo_junction(cs, junction, speed_decay) ==
    LET queue == fifo_queue(cs, junction)
    IN  IF Len(queue) = 0 THEN cs
        ELSE LET base_speed == cs[queue[1]].speed
             IN  [i \in 1..Len(cs) |->
                     IF \E n \in 2..Len(queue) : queue[n] = i
                     THEN LET n == CHOOSE n \in 2..Len(queue) : queue[n] = i
                          IN  [cs[i] EXCEPT !.speed = fifo_follower_speed(base_speed, n - 1, speed_decay)]
                     ELSE cs[i]]

\* fifo.dispatch(cars, junctions, speed_decay): the car objects it leaves
RECURSIVE fifo_dispatch(_, _, _)
fifo_dispatch(cs, js, speed_decay) ==
    IF Len(js) = 0 THEN cs
    ELSE fifo_dispatch(fifo_junction(cs, js[1], speed_decay), Tail(js), speed_decay)

-----------------------------------------------------------------------------
(* app/utils/transformations.py and calculate_priority of prioq.py *)

\* weight of required_junction_segments: transform.linear(x, 3)
SegmentsWeight == 3

\* cap of the waiting-time weight: transform.exponential(x, max_value=10)
WaitingCap == 10

\* transform.linear(x, multiplier)
linear(x, multiplier) == x * multiplier

RECURSIVE Pow(_, _)
Pow(base, x) == IF x = 0 THEN 1 ELSE base * Pow(base, x - 1)

\* transform.exponential(x, base=2, max_value)
exponential(x, max_value) == Min(Pow(2, x), max_value)

\* transform.logarithmic(x, base=10), exact on the speeds of the requests
logarithmic(x) ==
    CASE x <= 0 -> 0
      [] x = 1 -> 0
      [] x = 10 -> 1
      [] x = 100 -> 2

\* calculate_priority with combine_mode "sum" and the default weight functions
calculate_priority(c, cars_in_line, required_junction_segments) ==
    linear(cars_in_line, 1)
    + linear(required_junction_segments, SegmentsWeight)
    + exponential(c.seconds_in_traffic, WaitingCap)
    + logarithmic(c.speed)

-----------------------------------------------------------------------------
(* app/algorithms/prioq.py: dispatch, lines 66-77 (partition, leaving cars) *)

\* `not car.next_junction_id`
is_leaving(c) == c.next_junction_id = None

\* the keys of cars_leaving_junction (Road objects, None for a car without
\* road), in insertion order
leaving_roads(cs) ==
    LET leaving == SelectSeq(Indices(cs), LAMBDA i : is_leaving(cs[i]))
    IN  Dedup([n \in 1..Len(leaving) |-> road(cs[leaving[n]])])

\* cars_leaving_junction[key]
leaving_group(cs, key) ==
    SelectSeq(Indices(cs), LAMBDA i : is_leaving(cs[i]) /\ road(cs[i]) = key)

\* the position of the key None among leaving_roads, 0 when every leaving
\* car has a road: road.recommended_speed raises AttributeError there
leaving_stop(cs) ==
    LET keys == leaving_roads(cs)
    IN  IF \E n \in 1..Len(keys) : keys[n] = None
        THEN CHOOSE n \in 1..Len(keys) : keys[n] = None
        ELSE 0

\* the car objects after `for road, cars in cars_leaving_junction.items()`
cars_after_leaving(cs) ==
    LET keys == leaving_roads(cs)
        stop == leaving_stop(cs)
        done == IF stop = 0 THEN Range(keys) ELSE {keys[n] : n \in 1..(stop - 1)}
    IN  [i \in 1..Len(cs) |->
            IF is_leaving(cs[i]) /\ road(cs[i]) \in done
            THEN [cs[i] EXCEPT !.speed = RecommendedSpeed(road(cs[i]))]
            ELSE cs[i]]

\* what the name `cars` is bound to after that loop: its loop variable
\* rebinds the parameter `cars`
name_after_leaving(cs) ==
    LET keys == leaving_roads(cs)
        stop == leaving_stop(cs)
    IN  IF Len(keys) = 0 THEN Indices(cs)
        ELSE leaving_group(cs, keys[IF stop = 0 THEN Len(keys) ELSE stop])

-----------------------------------------------------------------------------
(* prioq.py: dispatch, lines 79-114 (one junction: buckets, candidates) *)

\* junction_cars[junction.junction_id]
cars_at_junction(cs, junction) ==
    SelectSeq(Indices(cs), LAMBDA i : cs[i].next_junction_id = junction.junction_id)

\* a car of the junction that sets is_car_inside
is_occupant(junction, c) ==
    /\ c.road_id # None
    /\ is_point_inside(junction, c.x, c.y)

\* a mutant of is_bucketed: the occupant is not skipped
is_bucketed_with_occupants(junction, c) == c.road_id # None

\* a car of the junction that is appended to road_cars[car.road_id]
is_bucketed(junction, c) ==
    /\ c.road_id # None
    /\ ~is_point_inside(junction, c.x, c.y)

\* cars_on_road.sort(key=lambda c: c.distance_from_next_junction())
sort_by_distance(cs, idxs) ==
    LET sorted == SortAsc([n \in 1..Len(idxs) |->
                              [k |-> distance_from_next_junction(cs[idxs[n]]), i |-> idxs[n]]])
    IN  [n \in 1..Len(sorted) |-> sorted[n].i]

\* road_cars after lines 88-99: one entry per road_id, in insertion order
road_cars_of(cs, junction) ==
    LET at == cars_at_junction(cs, junction)
        b == SelectSeq(at, LAMBDA i : is_bucketed(junction, cs[i]))
        ids == Dedup([n \in 1..Len(b) |-> cs[b[n]].road_id])
    IN  [r \in 1..Len(ids) |->
            [road_id |-> ids[r],
             cars_on_road |-> sort_by_distance(cs,
                                 SelectSeq(b, LAMBDA i : cs[i].road_id = ids[r]))]]

\* the sort of line 99 compares a None distance: TypeError
sort_raises(cs, rc) ==
    \E r \in 1..Len(rc) :
        /\ Len(rc[r].cars_on_road) >= 2
        /\ \E n \in 1..Len(rc[r].cars_on_road) :
               distance_from_next_junction(cs[rc[r].cars_on_road[n]]) = NoDistance

\* line 111 compares a None distance with junction_buffer_zone: TypeError
waiting_raises(cs, rc) ==
    \E r \in 1..Len(rc) :
        distance_from_next_junction(cs[rc[r].cars_on_road[1]]) = NoDistance

\* waiting_cars after lines 108-114: the first car of each road within
\* junction_buffer_zone
waiting_cars_of(cs, rc, junction_buffer_zone) ==
    LET first == [r \in 1..Len(rc) |-> rc[r].cars_on_road[1]]
    IN  SelectSeq(first, LAMBDA i : distance_from_next_junction(cs[i]) <= junction_buffer_zone)

-----------------------------------------------------------------------------
(* prioq.py: dispatch, lines 116-142 (admission loop) *)

\* len(road_cars.get(c.road_id, []))
cars_on_road_count(rc, road_id) ==
    IF \E r \in 1..Len(rc) : rc[r].road_id = road_id
    THEN Len(rc[CHOOSE r \in 1..Len(rc) : rc[r].road_id = road_id].cars_on_road)
    ELSE 0

\* the sort key of line 117
priority_key(cs, rc, junction, i) ==
    calculate_priority(cs[i],
                       cars_on_road_count(rc, cs[i].road_id) - 1,
                       crossing_segments_count(junction, cs[i].road_id, cs[i].target_road_id))

\* a mutant of sort_by_priority: the candidates stay in the order of road_cars
sort_by_priority_unsorted(cs, rc, junction, waiting) == waiting

\* waiting_cars.sort(key=..., reverse=True)
sort_by_priority(cs, rc, junction, waiting) ==
    LET sorted == SortDesc([n \in 1..Len(waiting) |->
                               [k |-> priority_key(cs, rc, junction, waiting[n]), i |-> waiting[n]]])
    IN  [n \in 1..Len(sorted) |-> sorted[n].i]

\* range(required_segments)
segment_range(required_segments) == 0..(required_segments - 1)

\* a mutant of segments_free: a car is let go only into an empty junction
segments_free_junction_empty(required_segments, taken) == taken = {}

\* `not any(seg in taken_up_segments for seg in range(required_segments))`
segments_free(required_segments, taken) ==
    ~ \E seg \in segment_range(required_segments) : seg \in taken

\* a mutant of mark_segments: the granted segments are not recorded
mark_segments_forgotten(required_segments, taken) == taken

\* `for seg in range(required_segments): taken_up_segments.add(seg)`
mark_segments(required_segments, taken) == taken \cup segment_range(required_segments)

\* the speed an admitted car gets: the recommended speed of its road, or its
\* own speed when it has no road or the road recommends 0
admitted_speed(c) ==
    IF road(c) # None /\ RecommendedSpeed(road(c)) # 0
    THEN RecommendedSpeed(road(c))
    ELSE c.speed

-----------------------------------------------------------------------------
(* prioq.py: dispatch, lines 145-164 (road following) *)

\* a mutant of default_prev_car_speed: the limit of the fastest road
default_prev_car_speed_fastest(c) == RecommendedSpeed("N")

\* the default of prev_car_speed_per_road.setdefault: car.road.recommended_speed
default_prev_car_speed(c) == RecommendedSpeed(road(c))

\* a mutant of followed_speed: the car keeps its own speed
followed_speed_own(prev_car_speed, c) == c.speed

\* line 152: car.speed = prev_car_speed
followed_speed(prev_car_speed, c) == prev_car_speed

\* the first road of road_cars that still has cars, 0 when none has
current_road(rc) ==
    IF \E r \in 1..Len(rc) : Len(rc[r].cars_on_road) > 0
    THEN CHOOSE r \in 1..Len(rc) :
             /\ Len(rc[r].cars_on_road) > 0
             /\ \A q \in 1..(r - 1) : Len(rc[q].cars_on_road) = 0
    ELSE 0

-----------------------------------------------------------------------------
(* app/routes/algorithms.py: dispatch_cars *)

\* a mutant of cached_car: the latest entry of the car
cached_car_latest(cache, c) ==
    IF \E n \in 1..Len(cache) : cache[n].car_id = c.car_id
    THEN CHOOSE n \in 1..Len(cache) :
             /\ cache[n].car_id = c.car_id
             /\ \A m \in (n + 1)..Len(cache) : cache[m].car_id # c.car_id
    ELSE 0

\* next(c for c in cached_cars if c.car_id == car.car_id), 0 when there is none
cached_car(cache, c) ==
    IF \E n \in 1..Len(cache) : cache[n].car_id = c.car_id
    THEN CHOOSE n \in 1..Len(cache) :
             /\ cache[n].car_id = c.car_id
             /\ \A m \in 1..(n - 1) : cache[m].car_id # c.car_id
    ELSE 0

\* a mutant of merge_cache: the cached target replaces the target the car
\* supplies
merge_cache_cached_target(c, cache) ==
    LET n == cached_car(cache, c)
    IN  IF n = 0 THEN c
        ELSE [c EXCEPT !.seconds_in_traffic = cache[n].seconds_in_traffic,
                       !.target_road_id = IF cache[n].target_road_id # None
                                          THEN cache[n].target_road_id
                                          ELSE @]

\* a mutant of merge_cache: the car keeps the seconds_in_traffic it reports
merge_cache_keeps_waiting(c, cache) ==
    LET n == cached_car(cache, c)
    IN  IF n = 0 THEN c
        ELSE [c EXCEPT !.target_road_id = IF c.target_road_id = None /\ cache[n].target_road_id # None
                                          THEN cache[n].target_road_id
                                          ELSE @]

\* lines 63-71: the cache merge of one car
merge_cache(c, cache) ==
    LET n == cached_car(cache, c)
    IN  IF n = 0 THEN c
        ELSE [c EXCEPT !.seconds_in_traffic = cache[n].seconds_in_traffic,
                       !.target_road_id = IF c.target_road_id = None /\ cache[n].target_road_id # None
                                          THEN cache[n].target_road_id
                                          ELSE @]

\* RoadNetwork.get_road_for_point buffer_radius default (1 unit)
BufferRadius == 10

\* the roads a /setup request can send: straight polylines along the axes
\* through J1
RoadN == [id |-> "N", polyline |-> <<<<0, 10>>, <<0, 100>>>>, recommended_speed |-> RecommendedSpeed("N")]

RoadE == [id |-> "E", polyline |-> <<<<10, 0>>, <<100, 0>>>>, recommended_speed |-> RecommendedSpeed("E")]

\* the envelope of road.geometry meets the envelope of Point(x, y).buffer(r)
envelope_meets(rd, x, y, r) ==
    LET xs == {rd.polyline[k][1] : k \in 1..Len(rd.polyline)}
        ys == {rd.polyline[k][2] : k \in 1..Len(rd.polyline)}
    IN  /\ \E a \in xs : a >= x - r
        /\ \E a \in xs : a <= x + r
        /\ \E b \in ys : b >= y - r
        /\ \E b \in ys : b <= y + r

\* self.tree.query(point_buffer): the positions (from 0) in self.roads of the
\* roads whose envelope meets the envelope of the buffer
possible_roads(roads, x, y) ==
    LET hits == SelectSeq(Indices(roads), LAMBDA k : envelope_meets(roads[k], x, y, BufferRadius))
    IN  [n \in 1..Len(hits) |-> hits[n] - 1]

\* What STRtree.query hands back depends on the shapely the build installs:
\* the geometries themselves (shapely 1), or an array of their positions
\* (shapely 2).  It is the same for every request of a process.
Lookups == {"geometries", "positions"}

\* RoadNetwork.get_road_for_point.  With geometries the closest road is
\* found.  With an array of positions, `not possible_roads` is the truth
\* value of the array: of its one element when it has one (position 0 is
\* falsy, so None is returned), ValueError when it has several; a position
\* that passes is then handed to distance(), TypeError.
get_road_for_point(roads, x, y, lookup) ==
    LET possible == possible_roads(roads, x, y)
    IN  IF Len(possible) = 0 THEN [road |-> None, raised |-> "none"]
        ELSE IF lookup = "geometries" THEN [road |-> roads[possible[1] + 1].id, raised |-> "none"]
        ELSE IF Len(possible) > 1 THEN [road |-> None, raised |-> "ValueError"]
        ELSE IF possible[1] = 0 THEN [road |-> None, raised |-> "none"]
        ELSE [road |-> None, raised |-> "TypeError"]

\* set_current_road: the exception it ends with, "none" when it returns.
\* Road has the field `id`, not `road_id`: a road that was found raises
\* AttributeError at `car.road_id = road.road_id`.
set_current_road(c, roads, lookup) ==
    LET found == get_road_for_point(roads, c.x, c.y, lookup)
    IN  IF found.raised # "none" THEN found.raised
        ELSE IF found.road # None THEN "AttributeError"
        ELSE "none"

\* set_next_junction: Car has no field `angle`, so evaluating the arguments
\* of get_road_end_coordinates raises AttributeError
set_next_junction(c, js) == "AttributeError"

\* lines 64-79: the loop over the cars from car i on.  The cars after the
\* loop, how many cars it went through, and the exception that ended it.
RECURSIVE merge_loop(_, _, _, _, _, _)
merge_loop(cs, i, cache, roads, js, lookup) ==
    IF i > Len(cs) THEN [cars |-> cs, done |-> Len(cs), raised |-> "none"]
    ELSE IF cached_car(cache, cs[i]) = 0 THEN merge_loop(cs, i + 1, cache, roads, js, lookup)
    ELSE LET merged == [cs EXCEPT ![i] = merge_cache(cs[i], cache)]
             at_road == IF Len(roads) > 0 THEN set_current_road(merged[i], roads, lookup)
                        ELSE "none"
         IN  IF at_road # "none" THEN [cars |-> merged, done |-> i, raised |-> at_road]
             ELSE IF road(merged[i]) # None
                  THEN [cars |-> merged, done |-> i, raised |-> set_next_junction(merged[i], js)]
             ELSE merge_loop(merged, i + 1, cache, roads, js, lookup)

\* line 75 is reached: a car has a cache entry
reads_roads(cs, cache) == \E i \in 1..Len(cs) : cached_car(cache, cs[i]) # 0

\* lines 55-59: the junctions the handler works with
junctions_read(stored, sent) == IF Len(stored) = 0 THEN sent ELSE stored

\* a mutant of junctions_stored: the fallback stores the junctions without
\* the first one
junctions_stored_without_first(stored, sent) ==
    IF Len(stored) = 0 /\ Len(sent) > 0 THEN Tail(sent) ELSE stored

\* line 58: app.state.junctions after the fallback
junctions_stored(stored, sent) == IF Len(stored) = 0 THEN sent ELSE stored

\* the keyword arguments of the call of line 83: duration_s and the stored
\* hyperparameters; a direct call passes none
call_kwargs == IF via = "route" THEN {"duration_s"} \cup DOMAIN state_hyperparams ELSE {}

\* the keyword parameters fifo.dispatch declares
FifoKeywords == {"speed_decay"}

\* the keyword parameters prioq.dispatch declares; **kwargs takes the rest
PrioKeywords == {"duration_s", "junction_buffer_zone", "slowdown_zone", "slowdown_rate"}

-----------------------------------------------------------------------------
(* The requests *)

Car(nj, x, y, speed, road_id, target, resolved) ==
    [next_junction_id |-> nj, x |-> x, y |-> y, speed |-> speed, road_id |-> road_id,
     target_road_id |-> target, seconds_in_traffic |-> 0, resolved |-> resolved]

\* the position at distance d from junction j on the approach of a road
PosX(j, road_id, d) == IF road_id \in {"N", "S"} THEN j.x ELSE j.x + d

PosY(j, road_id, d) ==
    CASE road_id = "N" -> j.y + d
      [] road_id = "S" -> j.y - d
      [] OTHER -> j.y

\* resolved cars approaching J1: inside the polygon (0), at the line (10),
\* behind it (20), a moving car further back on N (30), cars on S that turn
\* back into S, and a car on E whose target is a road J1 does not connect
ApproachingJ1 ==
    {Car("J1", PosX(J1, r, d), PosY(J1, r, d), v, r, t, TRUE) :
        r \in {"N", "E"}, d \in {0, 10, 20}, v \in {0, 10}, t \in {None, "S"}}
    \cup {Car("J1", PosX(J1, "S", d), PosY(J1, "S", d), 0, "S", "S", TRUE) : d \in {0, 10, 20}}
    \cup {Car("J1", PosX(J1, "N", 30), PosY(J1, "N", 30), 8, "N", None, TRUE)}
    \cup {Car("J1", PosX(J1, "E", 10), PosY(J1, "E", 10), 0, "E", "X", TRUE)}

\* resolved cars approaching J2
ApproachingJ2 ==
    {Car("J2", PosX(J2, "E", d), PosY(J2, "E", d), 0, "E", "S", TRUE) : d \in {0, 10}}

\* cars without a next junction: resolved on N or E, or not resolved
LeavingCars ==
    {Car(None, 0, 30, 0, "N", None, TRUE),
     Car(None, 30, 0, 0, "E", None, TRUE),
     Car(None, 0, 30, 0, "N", None, FALSE)}

\* cars the client sent without road object, without road_id, or towards a
\* junction the server does not know
OtherCars ==
    {Car("J1", 0, 10, 0, "N", None, FALSE),
     Car("J1", 0, 0, 10, None, None, FALSE),
     Car("J1", 10, 0, 10, None, None, FALSE),
     Car("JX", 0, 10, 10, "N", None, TRUE)}

PrioCars == ApproachingJ1 \cup ApproachingJ2 \cup LeavingCars \cup OtherCars

\* the cars of a FIFO call: next_junction_id, position and speed vary (the
\* farthest car is a moving one)
FifoCars ==
    {Car(nj, (IF nj = "J2" THEN J2.x ELSE 0) + d, 0, v, None, None, FALSE) :
        nj \in {"J1", "J2", "JX"}, d \in {20, 40}, v \in {0, 8}}
    \cup {Car(nj, (IF nj = "J2" THEN J2.x ELSE 0) + 60, 0, 8, None, None, FALSE) :
              nj \in {"J1", "J2", "JX"}}

\* "fifo", "FIFO", "FiFo", "priority", "PRIORITY", "Priority", "tsp", ""
Names ==
    {FifoKey, <<70, 73, 70, 79>>, <<70, 105, 70, 111>>,
     PriorityKey, <<80, 82, 73, 79, 82, 73, 84, 89>>, <<80, 114, 105, 111, 114, 105, 116, 121>>,
     <<116, 115, 112>>, <<>>}

\* payload.cars: car_id is the position in the list
CarLists(pool, n) ==
    {[i \in 1..n |-> [car_id |-> i] @@ l[i]] : l \in [1..n -> pool]}

Request(name, cs) ==
    [algorithm_name |-> name, cars |-> cs, junctions |-> Topology,
     next_request_in_seconds |-> 2]

NoResult == [kind |-> "unset", cars |-> <<>>]

NoResponse == [status |-> 0, body |-> <<>>]

EmptyDict == [r \in {} |-> 0]

\* SetupRequest defaults: slowdown_zone 3.0 (tenths of a unit), slowdown_rate
\* 0.3 (tenths)
DefaultHyperparams == [slowdown_zone |-> 30, slowdown_rate |-> 3]

\* main.py lifespan(): app.state at start-up
Lifespan ==
    /\ state_junctions = <<>>
    /\ state_roads = <<>>
    /\ state_cars_cache = <<>>
    /\ state_hyperparams = DefaultHyperparams
    /\ committed = {[junctions |-> <<>>, roads |-> <<>>, cars_cache |-> <<>>,
                     hyperparams |-> DefaultHyperparams]}
    /\ before = [h \in {"dispatch", "setup"} |->
                     [junctions |-> <<>>, roads |-> <<>>, cars_cache |-> <<>>,
                      hyperparams |-> DefaultHyperparams]]
    /\ log = <<>>

NoSetupRequest ==
    [junctions |-> <<>>, roads |-> <<>>, car_targets |-> <<>>, overwrite |-> FALSE,
     slowdown_zone |-> DefaultHyperparams.slowdown_zone,
     slowdown_rate |-> DefaultHyperparams.slowdown_rate]

NothingSeen ==
    [junctions |-> <<>>, roads |-> <<>>, roads_read |-> FALSE, cars_cache |-> <<>>,
     hyperparams |-> EmptyDict]

\* max_target_speed has not been called
NoCall == [pc |-> "none"]

\* no /setup request is in progress and /dispatch has read nothing yet
NoSetup ==
    /\ setup_pc = "idle"
    /\ setup_payload = NoSetupRequest
    /\ setup_key = 0
    /\ seen = NothingSeen

InitRequest(name, v, cs) ==
    /\ query_returns = "geometries"
    /\ kinematics = NoCall
    /\ payload = Request(name, cs)
    /\ via = v
    /\ cars = cs
    /\ cars_name = Indices(cs)
    /\ Lifespan
    /\ NoSetup
    /\ pc = "request"
    /\ algorithm = None
    /\ junctions = <<>>
    /\ jidx = 0
    /\ road_cars = <<>>
    /\ is_car_inside = FALSE
    /\ waiting_cars = <<>>
    /\ taken_up_segments = {}
    /\ prev_car_speed_per_road = EmptyDict
    /\ prev_car_distance_per_road = EmptyDict
    /\ admissions = <<>>
    /\ raised = "none"
    /\ retval = NoResult
    /\ response = NoResponse

\* The process state is the one lifespan() builds (main.py).  The request is
\* a priority request through the route, a direct FIFO call, or a one-car
\* request under any name, through the route or direct.
Init ==
    \/ \E n \in 1..MaxCarsPrio : \E cs \in CarLists(PrioCars, n) :
           InitRequest(PriorityKey, "route", cs)
    \/ \E n \in 1..MaxCarsFifo : \E cs \in CarLists(FifoCars, n) :
           InitRequest(FifoKey, "direct", cs)
    \/ \E name \in Names : \E v \in {"route", "direct"} :
           \E cs \in CarLists(PrioCars \cup FifoCars, 1) :
               InitRequest(name, v, cs)

-----------------------------------------------------------------------------
(* Actions *)

store == <<state_junctions, state_roads, state_cars_cache, state_hyperparams>>

\* the /setup handler and the record of the /setup requests
setup_vars == <<setup_pc, setup_payload, setup_key>>

\* what the handlers have read and answered
history == <<seen, before, log, committed>>

\* app.state as one value
process_state ==
    [junctions |-> state_junctions, roads |-> state_roads,
     cars_cache |-> state_cars_cache, hyperparams |-> state_hyperparams]

locals == <<jidx, road_cars, is_car_inside, waiting_cars, taken_up_segments,
            prev_car_speed_per_road, prev_car_distance_per_road, admissions>>

\* routes/algorithms.py lines 52-59: the algorithm lookup and the fallback
\* to the junctions of the payload, which is stored in app.state
RouteEnter ==
    /\ pc = "request"
    /\ via = "route"
    /\ algorithm' = get_algorithm(payload.algorithm_name)
    /\ state_junctions' = junctions_stored(state_junctions, payload.junctions)
    /\ junctions' = junctions_read(state_junctions, payload.junctions)
    /\ seen' = [seen EXCEPT !.junctions = junctions']
    /\ committed' = committed \cup {[process_state EXCEPT !.junctions = state_junctions']}
    /\ pc' = "merge"
    /\ UNCHANGED <<state_roads, state_cars_cache, state_hyperparams, payload, via, setup_vars,
                   cars, cars_name, locals, raised, retval, response, before, log>>
    /\ UNCHANGED <<query_returns, kinematics>>

\* routes/algorithms.py lines 61-79: the loop over the cars, which merges
\* the cache entry of a car and looks its road and next junction up.  An
\* exception of this loop is outside the try of line 82.
RouteMerge ==
    /\ pc = "merge"
    /\ LET loop == merge_loop(cars, 1, state_cars_cache, state_roads, junctions, query_returns)
       IN  /\ cars' = loop.cars
           /\ raised' = loop.raised
           /\ pc' = IF loop.raised = "none" THEN "call" ELSE "failed"
    /\ seen' = [seen EXCEPT !.cars_cache = state_cars_cache,
                            !.roads_read = reads_roads(cars, state_cars_cache),
                            !.roads = IF reads_roads(cars, state_cars_cache) THEN state_roads ELSE @]
    /\ UNCHANGED <<store, payload, via, setup_vars, algorithm, junctions, cars_name, locals,
                   retval, response, before, log, committed>>
    /\ UNCHANGED <<query_returns, kinematics>>

\* a caller that looks the algorithm up and calls it as
\* algorithm(cars, junctions)
DirectEnter ==
    /\ pc = "request"
    /\ via = "direct"
    /\ algorithm' = get_algorithm(payload.algorithm_name)
    /\ junctions' = payload.junctions
    /\ pc' = "call"
    /\ UNCHANGED <<store, payload, via, setup_vars, cars, cars_name, locals, raised, retval,
                   response, seen, before, log, committed>>
    /\ UNCHANGED <<query_returns, kinematics>>

\* fifo.dispatch: a keyword it does not declare is a TypeError at the call;
\* otherwise it mutates the cars and returns None
FifoCall ==
    /\ pc = "call"
    /\ algorithm = "fifo"
    /\ IF call_kwargs \subseteq FifoKeywords
       THEN /\ cars' = fifo_dispatch(cars, junctions, SpeedDecay)
            /\ retval' = [kind |-> "none", cars |-> <<>>]
            /\ pc' = "returned"
            /\ UNCHANGED raised
       ELSE /\ raised' = "TypeError"
            /\ pc' = "raised"
            /\ UNCHANGED <<cars, retval>>
    /\ seen' = [seen EXCEPT !.hyperparams = state_hyperparams]
    /\ UNCHANGED <<store, payload, via, setup_vars, algorithm, junctions, cars_name, locals,
                   response, before, log, committed>>
    /\ UNCHANGED <<query_returns, kinematics>>

\* prioq.dispatch lines 66-77: the partition and the leaving cars
PrioLeaving ==
    /\ pc = "call"
    /\ algorithm = "priority"
    /\ cars' = cars_after_leaving(cars)
    /\ cars_name' = name_after_leaving(cars)
    /\ IF leaving_stop(cars) # 0
       THEN /\ raised' = "AttributeError"
            /\ pc' = "raised"
            /\ UNCHANGED jidx
       ELSE /\ pc' = "junction"
            /\ jidx' = 1
            /\ UNCHANGED raised
    /\ UNCHANGED <<store, payload, via, algorithm, junctions, road_cars, is_car_inside,
                   waiting_cars, taken_up_segments, prev_car_speed_per_road,
                   prev_car_distance_per_road, admissions, retval, response>>
    /\ seen' = [seen EXCEPT !.hyperparams = state_hyperparams]
    /\ UNCHANGED <<setup_vars, before, log, committed>>
    /\ UNCHANGED <<query_returns, kinematics>>

\* prioq.dispatch lines 79-114: the next junction, its buckets and candidates
PrioJunction ==
    /\ pc = "junction"
    /\ jidx <= Len(junctions)
    /\ LET junction == junctions[jidx]
           at == cars_at_junction(cars, junction)
           rc == road_cars_of(cars, junction)
           inside == \E n \in 1..Len(at) : is_occupant(junction, cars[at[n]])
       IN  IF Len(at) = 0
           THEN /\ jidx' = jidx + 1
                /\ UNCHANGED <<pc, road_cars, is_car_inside, waiting_cars, taken_up_segments,
                               prev_car_speed_per_road, prev_car_distance_per_road, raised>>
           ELSE /\ road_cars' = rc
                /\ is_car_inside' = inside
                /\ prev_car_speed_per_road' = EmptyDict
                /\ prev_car_distance_per_road' = [r \in {rc[n].road_id : n \in 1..Len(rc)} |-> 0]
                /\ taken_up_segments' = {}
                /\ UNCHANGED jidx
                /\ IF sort_raises(cars, rc) \/ (~inside /\ waiting_raises(cars, rc))
                   THEN /\ raised' = "TypeError"
                        /\ pc' = "raised"
                        /\ UNCHANGED waiting_cars
                   ELSE /\ waiting_cars' = IF inside THEN <<>>
                                           ELSE waiting_cars_of(cars, rc, JunctionBufferZone)
                        /\ pc' = IF Len(waiting_cars') > 0 THEN "admit" ELSE "follow"
                        /\ UNCHANGED raised
    /\ UNCHANGED <<store, payload, via, setup_vars, history, algorithm, junctions, cars, cars_name, admissions,
                   retval, response>>
    /\ UNCHANGED <<query_returns, kinematics>>

\* prioq.dispatch lines 116-142: one turn of the admission loop
PrioAdmit ==
    /\ pc = "admit"
    /\ LET junction == junctions[jidx]
           sorted == sort_by_priority(cars, road_cars, junction, waiting_cars)
           selected_car == sorted[1]
           c == cars[selected_car]
           required_segments == crossing_segments_count(junction, c.road_id, c.target_road_id)
           admit == segments_free(required_segments, taken_up_segments)
           speed == IF admit THEN admitted_speed(c) ELSE 0
       IN  /\ waiting_cars' = Tail(sorted)
           /\ prev_car_distance_per_road' =
                  setdefault(prev_car_distance_per_road, c.road_id, distance_from_next_junction(c))
           /\ cars' = [cars EXCEPT ![selected_car].speed = speed]
           /\ taken_up_segments' = IF admit THEN mark_segments(required_segments, taken_up_segments)
                                   ELSE taken_up_segments
           /\ prev_car_speed_per_road' = setdefault(prev_car_speed_per_road, c.road_id, speed)
           /\ admissions' = Append(admissions,
                                   [junction |-> junction.junction_id, car |-> selected_car,
                                    w |-> required_segments, admitted |-> admit,
                                    score |-> priority_key(cars, road_cars, junction, selected_car),
                                    taken_before |-> taken_up_segments,
                                    taken_after |-> taken_up_segments'])
           /\ pc' = IF Len(sorted) > 1 THEN "admit" ELSE "follow"
    /\ UNCHANGED <<store, payload, via, setup_vars, history, algorithm, junctions, cars_name, jidx, road_cars,
                   is_car_inside, raised, retval, response>>
    /\ UNCHANGED <<query_returns, kinematics>>

\* prioq.dispatch lines 145-164: the next car of the road-following loop.
\* Car has no field `breaking` (schema.py), so evaluating the arguments of
\* max_target_speed raises AttributeError; a car without road raises it at
\* car.road.recommended_speed.
PrioFollow ==
    /\ pc = "follow"
    /\ current_road(road_cars) # 0
    /\ LET r == current_road(road_cars)
           road_id == road_cars[r].road_id
           car == road_cars[r].cars_on_road[1]
           c == cars[car]
       IN  /\ road_cars' = [road_cars EXCEPT ![r].cars_on_road = Tail(@)]
           /\ IF road(c) = None
              THEN /\ raised' = "AttributeError"
                   /\ pc' = "raised"
                   /\ UNCHANGED <<cars, prev_car_speed_per_road>>
              ELSE LET prev == setdefault(prev_car_speed_per_road, road_id, default_prev_car_speed(c))
                   IN  /\ prev_car_speed_per_road' = prev
                       /\ IF prev[road_id] > c.speed
                          THEN /\ cars' = [cars EXCEPT ![car].speed = followed_speed(prev[road_id], c)]
                               /\ UNCHANGED <<pc, raised>>
                          ELSE /\ raised' = "AttributeError"
                               /\ pc' = "raised"
                               /\ UNCHANGED cars
    /\ UNCHANGED <<store, payload, via, setup_vars, history, algorithm, junctions, cars_name, jidx, is_car_inside,
                   waiting_cars, taken_up_segments, prev_car_distance_per_road, admissions,
                   retval, response>>
    /\ UNCHANGED <<query_returns, kinematics>>

\* the road-following loop is over: on to the next junction
PrioNextJunction ==
    /\ pc = "follow"
    /\ current_road(road_cars) = 0
    /\ jidx' = jidx + 1
    /\ pc' = "junction"
    /\ UNCHANGED <<store, payload, via, setup_vars, history, algorithm, junctions, cars, cars_name, road_cars,
                   is_car_inside, waiting_cars, taken_up_segments, prev_car_speed_per_road,
                   prev_car_distance_per_road, admissions, raised, retval, response>>
    /\ UNCHANGED <<query_returns, kinematics>>

\* prioq.dispatch line 165: return cars
PrioReturn ==
    /\ pc = "junction"
    /\ jidx > Len(junctions)
    /\ retval' = [kind |-> "list", cars |-> cars_name]
    /\ pc' = "returned"
    /\ UNCHANGED <<store, payload, via, setup_vars, history, algorithm, junctions, cars, cars_name, locals,
                   raised, response>>
    /\ UNCHANGED <<query_returns, kinematics>>

\* routes/algorithms.py lines 82-85: the list the algorithm returned is the
\* response; an exception of the algorithm is answered with status 400, an
\* exception outside the try with status 500
RouteRespond ==
    /\ via = "route"
    /\ pc \in {"returned", "raised", "failed"}
    /\ response' = CASE pc = "raised" -> [status |-> 400, body |-> <<>>]
                      [] pc = "failed" -> [status |-> 500, body |-> <<>>]
                      [] OTHER -> [status |-> 200,
                                   body |-> [n \in 1..Len(retval.cars) |-> cars[retval.cars[n]]]]
    /\ log' = Append(log, [kind |-> "dispatch", payload |-> payload, before |-> before.dispatch,
                            after |-> process_state, response |-> response', error |-> raised])
    /\ pc' = "responded"
    /\ UNCHANGED <<store, payload, via, setup_vars, seen, before, committed, algorithm, junctions,
                   cars, cars_name, locals, raised, retval>>
    /\ UNCHANGED <<query_returns, kinematics>>

Next ==
    \/ RouteEnter
    \/ RouteMerge
    \/ DirectEnter
    \/ FifoCall
    \/ PrioLeaving
    \/ PrioJunction
    \/ PrioAdmit
    \/ PrioFollow
    \/ PrioNextJunction
    \/ PrioReturn
    \/ RouteRespond

Spec == Init /\ [][Next]_vars

-----------------------------------------------------------------------------
(* app/routes/algorithms.py: setup *)

\* a mutant of overwrite: the handler ignores the flag
overwrite_ignored == FALSE

\* line 18: overwrite = payload.overwrite
overwrite == setup_payload.overwrite

\* CarCache(car_id=key, target_road_id=value)
CarCache(key, value) == [car_id |-> key, seconds_in_traffic |-> 0, target_road_id |-> value]

\* what a step of the /setup handler leaves alone
dispatch_vars == <<payload, via, pc, algorithm, junctions, cars, cars_name, locals, raised,
                   retval, response, seen>>

\* lines 21-22.  lifespan() has set the three attributes, so `not hasattr`
\* is false.
SetupClearJunctions ==
    /\ setup_pc = "clear_junctions"
    /\ state_junctions' = IF overwrite THEN <<>> ELSE state_junctions
    /\ setup_pc' = "clear_roads"
    /\ UNCHANGED <<state_roads, state_cars_cache, state_hyperparams, setup_payload, setup_key,
                   dispatch_vars, before, log, committed>>
    /\ UNCHANGED <<query_returns, kinematics>>

\* lines 24-25
SetupClearRoads ==
    /\ setup_pc = "clear_roads"
    /\ state_roads' = IF overwrite THEN <<>> ELSE state_roads
    /\ setup_pc' = "clear_cache"
    /\ UNCHANGED <<state_junctions, state_cars_cache, state_hyperparams, setup_payload,
                   setup_key, dispatch_vars, before, log, committed>>
    /\ UNCHANGED <<query_returns, kinematics>>

\* lines 27-28
SetupClearCache ==
    /\ setup_pc = "clear_cache"
    /\ state_cars_cache' = IF overwrite THEN <<>> ELSE state_cars_cache
    /\ setup_pc' = "junctions"
    /\ UNCHANGED <<state_junctions, state_roads, state_hyperparams, setup_payload, setup_key,
                   dispatch_vars, before, log, committed>>
    /\ UNCHANGED <<query_returns, kinematics>>

\* line 31 or line 37
SetupJunctions ==
    /\ setup_pc = "junctions"
    /\ state_junctions' = IF overwrite THEN setup_payload.junctions
                           ELSE state_junctions \o setup_payload.junctions
    /\ setup_pc' = "roads"
    /\ UNCHANGED <<state_roads, state_cars_cache, state_hyperparams, setup_payload, setup_key,
                   dispatch_vars, before, log, committed>>
    /\ UNCHANGED <<query_returns, kinematics>>

\* line 32 or line 38
SetupRoads ==
    /\ setup_pc = "roads"
    /\ state_roads' = IF overwrite THEN setup_payload.roads
                       ELSE state_roads \o setup_payload.roads
    /\ setup_pc' = "car_targets"
    /\ UNCHANGED <<state_junctions, state_cars_cache, state_hyperparams, setup_payload,
                   setup_key, dispatch_vars, before, log, committed>>
    /\ UNCHANGED <<query_returns, kinematics>>

\* lines 33-35 or 39-40: one turn of the loop over car_targets.  With
\* overwrite the cache is cleared inside the loop, before every append.
SetupCarTarget ==
    /\ setup_pc = "car_targets"
    /\ setup_key <= Len(setup_payload.car_targets)
    /\ LET entry == CarCache(setup_payload.car_targets[setup_key].key,
                              setup_payload.car_targets[setup_key].value)
       IN  state_cars_cache' = IF overwrite THEN <<entry>> ELSE Append(state_cars_cache, entry)
    /\ setup_key' = setup_key + 1
    /\ UNCHANGED <<state_junctions, state_roads, state_hyperparams, setup_pc, setup_payload,
                   dispatch_vars, before, log, committed>>
    /\ UNCHANGED <<query_returns, kinematics>>

\* lines 42-47: the hyperparameters, and the answer
SetupHyperparams ==
    /\ setup_pc = "car_targets"
    /\ setup_key > Len(setup_payload.car_targets)
    /\ state_hyperparams' = [slowdown_zone |-> setup_payload.slowdown_zone,
                              slowdown_rate |-> setup_payload.slowdown_rate]
    /\ setup_pc' = "done"
    /\ log' = Append(log, [kind |-> "setup", payload |-> setup_payload, before |-> before.setup,
                            after |-> [process_state EXCEPT !.hyperparams = state_hyperparams']])
    /\ committed' = committed \cup {[process_state EXCEPT !.hyperparams = state_hyperparams']}
    /\ UNCHANGED <<state_junctions, state_roads, state_cars_cache, setup_payload, setup_key,
                   dispatch_vars, before>>
    /\ UNCHANGED <<query_returns, kinematics>>


-----------------------------------------------------------------------------
(* The requests of a running server *)

\* car_targets as the list of its items, in insertion order
Targets(items) == [n \in 1..Len(items) |-> [key |-> items[n][1], value |-> items[n][2]]]

SetupRequest(js, rs, items, ow, zone, rate) ==
    [junctions |-> js, roads |-> rs, car_targets |-> Targets(items), overwrite |-> ow,
     slowdown_zone |-> zone, slowdown_rate |-> rate]

SetupRequests ==
    {SetupRequest(Topology, <<RoadN, RoadE>>, <<<<1, "S">>, <<2, "E">>>>, TRUE, 30, 3),
     SetupRequest(<<J1>>, <<>>, <<<<1, "S">>>>, TRUE, 50, 5),
     SetupRequest(<<>>, <<RoadE, RoadN>>, <<<<1, "E">>>>, TRUE, 30, 3),
     SetupRequest(<<>>, <<>>, <<>>, TRUE, 30, 3),
     SetupRequest(<<J2>>, <<RoadE>>, <<<<2, "E">>>>, FALSE, 30, 3),
     SetupRequest(<<>>, <<>>, <<<<1, "S">>, <<2, "E">>>>, FALSE, 50, 5),
     SetupRequest(<<>>, <<>>, <<<<1, "E">>>>, FALSE, 30, 3)}

\* a car that reports seconds_in_traffic
Waited(c, seconds) == [c EXCEPT !.seconds_in_traffic = seconds]

\* payload.cars: a car on road N behind the line of J1, with its road object
OneResolved == <<[car_id |-> 1] @@ Car("J1", 0, 20, 0, "N", None, TRUE)>>

\* a car near road N that names neither road nor next junction
OneUnresolved == <<[car_id |-> 1] @@ Waited(Car(None, 0, 20, 0, None, "E", FALSE), 7)>>

\* a car far from every road, and a car on road N at the line of J1
AwayAndCandidate ==
    <<[car_id |-> 1] @@ Waited(Car("J1", 300, 300, 10, None, None, FALSE), 7),
      [car_id |-> 2] @@ Car("J1", 0, 10, 0, "N", "S", TRUE)>>

\* a car far from every road without next junction, and a car on road N
AwayAndResolved ==
    <<[car_id |-> 1] @@ Car(None, 300, 300, 0, None, None, FALSE),
      [car_id |-> 2] @@ Car("J1", 0, 20, 0, "N", None, TRUE)>>

DispatchRequests ==
    {[Request(name, OneResolved) EXCEPT !.junctions = js] :
        name \in {FifoKey, PriorityKey}, js \in {Topology, <<>>}}
    \cup {Request(name, cs) : name \in {FifoKey, PriorityKey},
                              cs \in {OneUnresolved, AwayAndCandidate, AwayAndResolved}}

\* the requests that have arrived
arrived ==
    Len(log) + (IF pc \in {"idle", "responded"} THEN 0 ELSE 1)
             + (IF setup_pc \in {"idle", "done"} THEN 0 ELSE 1)

\* a /setup request arrives
SetupArrive ==
    /\ setup_pc \in {"idle", "done"}
    /\ \E p \in SetupRequests : setup_payload' = p
    /\ setup_pc' = "clear_junctions"
    /\ setup_key' = 1
    /\ before' = [before EXCEPT !.setup = process_state]
    /\ UNCHANGED <<store, dispatch_vars, log, committed>>
    /\ UNCHANGED <<query_returns, kinematics>>

\* a /dispatch request arrives
DispatchArrive ==
    /\ pc \in {"idle", "responded"}
    /\ \E p \in DispatchRequests :
           /\ payload' = p
           /\ cars' = p.cars
           /\ cars_name' = Indices(p.cars)
    /\ via' = "route"
    /\ pc' = "request"
    /\ algorithm' = None
    /\ junctions' = <<>>
    /\ jidx' = 0
    /\ road_cars' = <<>>
    /\ is_car_inside' = FALSE
    /\ waiting_cars' = <<>>
    /\ taken_up_segments' = {}
    /\ prev_car_speed_per_road' = EmptyDict
    /\ prev_car_distance_per_road' = EmptyDict
    /\ admissions' = <<>>
    /\ raised' = "none"
    /\ retval' = NoResult
    /\ response' = NoResponse
    /\ seen' = NothingSeen
    /\ before' = [before EXCEPT !.dispatch = process_state]
    /\ UNCHANGED <<store, setup_vars, log, committed>>
    /\ UNCHANGED <<query_returns, kinematics>>

\* the server after start-up: no request has arrived
NoRequest ==
    /\ Lifespan
    /\ NoSetup
    /\ payload = Request(FifoKey, <<>>)
    /\ via = "route"
    /\ cars = <<>>
    /\ cars_name = <<>>
    /\ pc = "idle"
    /\ algorithm = None
    /\ junctions = <<>>
    /\ jidx = 0
    /\ road_cars = <<>>
    /\ is_car_inside = FALSE
    /\ waiting_cars = <<>>
    /\ taken_up_segments = {}
    /\ prev_car_speed_per_road = EmptyDict
    /\ prev_car_distance_per_road = EmptyDict
    /\ admissions = <<>>
    /\ raised = "none"
    /\ retval = NoResult
    /\ response = NoResponse

\* the process after start-up, with the shapely it was installed with
ServerInit ==
    /\ query_returns \in Lookups
    /\ kinematics = NoCall
    /\ NoRequest

\* no request is in progress
Quiet == pc \in {"idle", "responded"} /\ setup_pc \in {"idle", "done"}

\* a step of the /dispatch handler
DispatchStep ==
    \/ RouteEnter
    \/ RouteMerge
    \/ FifoCall
    \/ PrioLeaving
    \/ PrioJunction
    \/ PrioAdmit
    \/ PrioFollow
    \/ PrioNextJunction
    \/ PrioReturn
    \/ RouteRespond

\* a step of the /setup handler
SetupStep ==
    \/ SetupClearJunctions
    \/ SetupClearRoads
    \/ SetupClearCache
    \/ SetupJunctions
    \/ SetupRoads
    \/ SetupCarTarget
    \/ SetupHyperparams

\* requests served one after the other: a request arrives when the one
\* before it has been answered
ServerNext ==
    \/ Quiet /\ arrived < MaxRequests /\ SetupArrive
    \/ Quiet /\ arrived < MaxRequests /\ DispatchArrive
    \/ DispatchStep
    \/ SetupStep

Server == ServerInit /\ [][ServerNext]_vars

\* setup is `async def`: it runs on the event loop.  dispatch_cars is `def`:
\* it runs on a worker thread.  No lock guards app.state, so the steps of a
\* /setup and of a /dispatch in progress interleave.
ThreadsNext ==
    \/ arrived < MaxOverlapping /\ SetupArrive
    \/ arrived < MaxOverlapping /\ DispatchArrive
    \/ DispatchStep
    \/ SetupStep

Threads == ServerInit /\ [][ThreadsNext]_vars

-----------------------------------------------------------------------------
(* Properties *)

\* the call is over: it returned or raised, and the route has answered
TickOver == pc \in {"returned", "raised", "responded"} /\ (via = "route" => pc = "responded")

\* the car objects as the client sent them
input == payload.cars

\* the call returned a list holding car i
InReturnedList(i) ==
    /\ retval.kind = "list"
    /\ \E n \in 1..Len(retval.cars) : retval.cars[n] = i

\* C1: in one priority tick at one junction, the segment sets {0..w-1} of any
\* two admitted cars are disjoint, so at most one admitted car has w >= 1.
C1_AdmittedSegmentsDisjoint ==
    \A a, b \in 1..Len(admissions) :
        (/\ a # b
         /\ admissions[a].junction = admissions[b].junction
         /\ admissions[a].admitted
         /\ admissions[b].admitted)
        => (0..(admissions[a].w - 1)) \cap (0..(admissions[b].w - 1)) = {}

\* two cars were admitted at one junction in this tick, one of them with
\* w >= 1, and a third candidate or none was refused
C1_Witness ==
    \E a, b \in 1..Len(admissions) :
        /\ a # b
        /\ admissions[a].junction = admissions[b].junction
        /\ admissions[a].admitted
        /\ admissions[b].admitted
        /\ admissions[a].w >= 1

\* C2 (as claimed): when a car approaching J is inside J's polygon, no car
\* outside the polygon and within junction_buffer_zone of J ends a priority
\* tick with its speed raised to the recommended speed of its road.
C2_NoEntryWhileOccupied ==
    (algorithm = "priority" /\ pc \in {"returned", "responded"} /\ raised = "none") =>
        \A j \in 1..Len(junctions) : \A i, k \in 1..Len(cars) :
            (/\ input[i].next_junction_id = junctions[j].junction_id
             /\ is_point_inside(junctions[j], input[i].x, input[i].y)
             /\ input[k].next_junction_id = junctions[j].junction_id
             /\ ~is_point_inside(junctions[j], input[k].x, input[k].y)
             /\ road(input[k]) # None
             /\ distance_from_next_junction(input[k]) <= JunctionBufferZone)
            => ~(/\ cars[k].speed = RecommendedSpeed(road(input[k]))
                 /\ input[k].speed < cars[k].speed)

\* C3 (as claimed): a candidate refused in a priority tick has speed 0 in the
\* list dispatch returns.
C3_RefusedReturnedStopped ==
    TickOver =>
        \A a \in 1..Len(admissions) :
            ~admissions[a].admitted =>
                /\ InReturnedList(admissions[a].car)
                /\ cars[admissions[a].car].speed = 0

\* C4 (as claimed): a candidate admitted in a priority tick, on a road with a
\* non-zero recommended speed, has that speed in the list dispatch returns.
C4_AdmittedReturnedAtLimit ==
    TickOver =>
        \A a \in 1..Len(admissions) :
            (/\ admissions[a].admitted
             /\ road(input[admissions[a].car]) # None
             /\ RecommendedSpeed(road(input[admissions[a].car])) # 0)
            => /\ InReturnedList(admissions[a].car)
               /\ cars[admissions[a].car].speed = RecommendedSpeed(road(input[admissions[a].car]))

\* car i approaches a junction of the request and lies inside its polygon
IsInsideItsJunction(i) ==
    /\ input[i].next_junction_id # None
    /\ HasJunction(payload.junctions, input[i].next_junction_id)
    /\ is_point_inside(JunctionById(payload.junctions, input[i].next_junction_id),
                       input[i].x, input[i].y)

\* C5: priority dispatch never changes the speed of a car that has a
\* next_junction_id and lies inside that junction's polygon.
C5_OccupantSpeedUnchanged ==
    algorithm = "priority" =>
        \A i \in 1..Len(cars) :
            IsInsideItsJunction(i) => cars[i].speed = input[i].speed

\* a priority tick returned, a car was inside its junction throughout, and
\* the tick changed the speed of another car
C5_Witness ==
    /\ algorithm = "priority"
    /\ pc = "responded"
    /\ response.status = 200
    /\ \E i, k \in 1..Len(cars) :
           /\ IsInsideItsJunction(i)
           /\ input[i].road_id # None
           /\ cars[k].speed # input[k].speed

\* C6 (as claimed): priority dispatch returns every input car exactly once,
\* in input order, whether or not some cars have no next_junction_id.
C6_ReturnsWholeList ==
    (algorithm = "priority" /\ pc = "returned") => retval.cars = Indices(input)

\* C7 (as claimed): through the /dispatch route FIFO succeeds as Priority
\* does and answers with the list of cars.
C7_FifoRouteSucceeds ==
    (via = "route" /\ algorithm = "fifo" /\ pc = "responded") =>
        /\ response.status = 200
        /\ Len(response.body) = Len(input)

\* the name equals the registry key up to the case of its letters
SameUpToCase(name, key) ==
    /\ Len(name) = Len(key)
    /\ \A i \in 1..Len(key) : name[i] = key[i] \/ name[i] = key[i] - 32

\* the name is neither "fifo" nor "priority" in any letter case
UnknownName(name) == ~SameUpToCase(name, FifoKey) /\ ~SameUpToCase(name, PriorityKey)

\* C8: the lookup never fails; a name equal to "fifo" or "priority" up to
\* letter case selects that strategy, every other name selects FIFO, and a
\* dispatch under an unknown name ends as the FIFO dispatch of the same
\* request does.
C8_LookupCaseInsensitiveDefaultFifo ==
    pc # "request" =>
        /\ algorithm \in {"fifo", "priority"}
        /\ SameUpToCase(payload.algorithm_name, FifoKey) => algorithm = "fifo"
        /\ SameUpToCase(payload.algorithm_name, PriorityKey) => algorithm = "priority"
        /\ UnknownName(payload.algorithm_name) => algorithm = "fifo"
        /\ (pc = "call") => raised = "none"
        /\ (UnknownName(payload.algorithm_name) /\ TickOver /\ via = "direct") =>
               /\ raised = "none"
               /\ cars = fifo_dispatch(input, payload.junctions, SpeedDecay)
        /\ (UnknownName(payload.algorithm_name) /\ TickOver /\ via = "route") =>
               response.status = IF call_kwargs \subseteq FifoKeywords THEN 200 ELSE 400

\* a direct call under the name "tsp", which the registry does not hold,
\* was run by FIFO and has returned
C8_Witness ==
    /\ TickOver
    /\ via = "direct"
    /\ payload.algorithm_name = <<116, 115, 112>>
    /\ algorithm = "fifo"
    /\ raised = "none"

\* the cars queued before car i at its junction: nearer, or as near and
\* earlier in the list
FifoAhead(i) ==
    {k \in 1..Len(input) :
        /\ k # i
        /\ input[k].next_junction_id = input[i].next_junction_id
        /\ \/ sq_distance_from_junction(input[k]) < sq_distance_from_junction(input[i])
           \/ /\ sq_distance_from_junction(input[k]) = sq_distance_from_junction(input[i])
              /\ k < i}

\* the speed the FIFO decay gives car i
FifoExpectedSpeed(i) ==
    IF ~HasJunction(payload.junctions, input[i].next_junction_id) THEN input[i].speed
    ELSE IF FifoAhead(i) = {} THEN input[i].speed
    ELSE LET leader == CHOOSE k \in FifoAhead(i) : FifoAhead(k) = {}
         IN  IF input[leader].speed - Cardinality(FifoAhead(i)) * SpeedDecay >= FifoFloor
             THEN input[leader].speed - Cardinality(FifoAhead(i)) * SpeedDecay
             ELSE FifoFloor

WithinLimit(c) == 0 <= c.speed /\ c.speed <= RecommendedSpeed(road(c))

\* C10 (as claimed): every car in the output of a dispatch, of either
\* strategy, whose road is resolved has 0 <= speed <= road.recommended_speed.
C10_OutputWithinLimit ==
    /\ (algorithm = "priority" /\ retval.kind = "list") =>
           \A n \in 1..Len(retval.cars) :
               road(cars[retval.cars[n]]) # None => WithinLimit(cars[retval.cars[n]])
    /\ (algorithm = "fifo" /\ pc = "returned") =>
           \A i \in 1..Len(cars) : road(cars[i]) # None => WithinLimit(cars[i])

\* C10 (amended): every car in the list a priority dispatch returns whose
\* road is resolved and whose speed was within the limit of that road on
\* input has 0 <= speed <= road.recommended_speed.
C10_PriorityKeepsWithinLimit ==
    (algorithm = "priority" /\ retval.kind = "list") =>
        \A n \in 1..Len(retval.cars) :
            (/\ road(input[retval.cars[n]]) # None
             /\ WithinLimit(input[retval.cars[n]]))
            => WithinLimit(cars[retval.cars[n]])

\* a priority dispatch returned a car with a resolved road whose speed the
\* tick raised
C10_Witness ==
    /\ algorithm = "priority"
    /\ retval.kind = "list"
    /\ \E n \in 1..Len(retval.cars) :
           /\ road(input[retval.cars[n]]) # None
           /\ input[retval.cars[n]].next_junction_id # None
           /\ WithinLimit(input[retval.cars[n]])
           /\ cars[retval.cars[n]].speed > input[retval.cars[n]].speed

\* car i is one of the cars the road-following loop of its junction handles:
\* it names a road and a junction of the topology and is outside the polygon
IsFollowing(i) ==
    /\ HasJunction(junctions, input[i].next_junction_id)
    /\ is_bucketed(JunctionById(junctions, input[i].next_junction_id), input[i])

\* car i is ahead of car j on the same road towards the same junction: it is
\* nearer, or as near and earlier in the list
IsAheadOf(i, j) ==
    /\ i # j
    /\ IsFollowing(i) /\ IsFollowing(j)
    /\ input[i].next_junction_id = input[j].next_junction_id
    /\ input[i].road_id = input[j].road_id
    /\ LET di == distance_from_next_junction(input[i])
           dj == distance_from_next_junction(input[j])
       IN  di < dj \/ (di = dj /\ i < j)

SetupsAnswered == {n \in 1..Len(log) : log[n].kind = "setup"}

\* the answered /dispatch requests, as positions in the log
DispatchesAnswered == {n \in 1..Len(log) : log[n].kind = "dispatch"}

\* the cache holds exactly one entry per key of car_targets
OneEntryPerKey(cache, car_targets) ==
    /\ Len(cache) = Len(car_targets)
    /\ \A k \in 1..Len(car_targets) :
           \E n \in 1..Len(cache) :
               cache[n] = CarCache(car_targets[k].key, car_targets[k].value)

\* C12: after a /setup with overwrite=true the stored junctions and roads are
\* those of the payload and the car cache holds exactly one entry per key of
\* car_targets.
C12_OverwriteReplacesAll ==
    \A n \in SetupsAnswered :
        log[n].payload.overwrite =>
            /\ log[n].after.junctions = log[n].payload.junctions
            /\ log[n].after.roads = log[n].payload.roads
            /\ OneEntryPerKey(log[n].after.cars_cache, log[n].payload.car_targets)

\* requests n and n + 1 are /setup requests with the same payload, sent with
\* overwrite=true
SameOverwriteTwice(n) ==
    /\ n \in SetupsAnswered
    /\ n + 1 \in SetupsAnswered
    /\ log[n].payload.overwrite
    /\ log[n + 1].payload = log[n].payload

\* C13: a /setup with overwrite=true applied twice in a row leaves junctions,
\* roads, car cache and hyperparameters as they were after the first.
C13_OverwriteIdempotent ==
    \A n \in 1..Len(log) :
        SameOverwriteTwice(n) => log[n + 1].after = log[n].after

\* the same overwriting /setup, with junctions, roads and car targets, was
\* answered twice in a row on a server whose state an earlier request had
\* changed
C13_Witness ==
    \E n \in 1..Len(log) :
        /\ SameOverwriteTwice(n)
        /\ Len(log[n].payload.junctions) > 0
        /\ Len(log[n].payload.roads) > 0
        /\ Len(log[n].payload.car_targets) > 1
        /\ log[n].before # log[1].before
        /\ log[n].before # log[n].after
        /\ log[n + 1].after = process_state

\* requests n and n + 1 are /dispatch requests with the same payload
SameDispatchTwice(n) ==
    /\ n \in DispatchesAnswered
    /\ n + 1 \in DispatchesAnswered
    /\ log[n + 1].payload = log[n].payload

\* C14: two /dispatch requests in a row with the same payload get the same
\* answer: the same status, the same cars with the same speeds, the same
\* exception when they fail.
C14_DispatchDeterministic ==
    \A n \in 1..Len(log) :
        SameDispatchTwice(n) =>
            /\ log[n + 1].response = log[n].response
            /\ log[n + 1].error = log[n].error

\* the first of two equal /dispatch requests stored the junctions of its
\* payload, and both were answered with the cars, a speed changed
C14_Witness ==
    \E n \in 1..Len(log) :
        /\ SameDispatchTwice(n)
        /\ Len(log[n].before.junctions) = 0
        /\ Len(log[n].after.junctions) > 0
        /\ log[n].response.status = 200
        /\ \E k \in 1..Len(log[n].response.body) :
               \E m \in 1..Len(log[n].payload.cars) :
                   /\ log[n].payload.cars[m].car_id = log[n].response.body[k].car_id
                   /\ log[n].payload.cars[m].speed # log[n].response.body[k].speed
        /\ log[n + 1].response = log[n].response

\* C15: a /dispatch whose algorithm raised is answered with a client error
\* and leaves junctions, roads, car cache and hyperparameters as they were
\* when the request arrived.
C15_FailedDispatchKeepsState ==
    \A n \in DispatchesAnswered :
        (log[n].error # "none" /\ log[n].response.status # 500) =>
            /\ log[n].response.status = 400
            /\ log[n].after = log[n].before

\* C16: every /dispatch, answered with the cars or with an error, leaves the
\* stored junctions, roads and car cache as they were when it arrived.
C16_OnlySetupWritesTopology ==
    \A n \in DispatchesAnswered :
        /\ log[n].after.junctions = log[n].before.junctions
        /\ log[n].after.roads = log[n].before.roads
        /\ log[n].after.cars_cache = log[n].before.cars_cache

\* the /dispatch in progress has read junctions, roads, car cache and
\* hyperparameters
HasReadAll == DOMAIN seen.hyperparams # {}

\* C17: what a /dispatch has read of app.state is the state after a whole
\* number of /setup requests (or that state with the junctions the dispatch
\* itself stored), never a mixture of two such states.
C17_DispatchReadsWholeSetups ==
    HasReadAll =>
        \E c \in committed :
            /\ seen.junctions = c.junctions
            /\ seen.cars_cache = c.cars_cache
            /\ seen.hyperparams = c.hyperparams
            /\ seen.roads_read => seen.roads = c.roads

\* the loop of lines 64-79 is over
MergeOver == via = "route" /\ pc \notin {"idle", "request", "merge"}

\* the loop of lines 64-79 ended with an exception
MergeFailed == pc = "failed" \/ (pc = "responded" /\ response.status = 500)

\* car i has the two cached fields as the merge leaves them
IsMerged(i) ==
    LET n == cached_car(seen.cars_cache, input[i])
    IN  IF n = 0
        THEN /\ cars[i].seconds_in_traffic = input[i].seconds_in_traffic
             /\ cars[i].target_road_id = input[i].target_road_id
        ELSE /\ cars[i].seconds_in_traffic = seen.cars_cache[n].seconds_in_traffic
             /\ cars[i].target_road_id = IF input[i].target_road_id # None
                                         THEN input[i].target_road_id
                                         ELSE seen.cars_cache[n].target_road_id

\* car i has the two cached fields as the client sent them
IsAsSent(i) ==
    /\ cars[i].seconds_in_traffic = input[i].seconds_in_traffic
    /\ cars[i].target_road_id = input[i].target_road_id

\* C18: after the cache merge of a /dispatch, a car with a cache entry has
\* the cached seconds_in_traffic, its own target_road_id when it supplied
\* one and the cached one otherwise; a car without cache entry has both as
\* sent.  When the loop ended with an exception, the cars it had not reached
\* have both as sent.
C18_CacheMerge ==
    MergeOver =>
        \A i \in 1..Len(cars) : IsMerged(i) \/ (MergeFailed /\ IsAsSent(i))

\* a /dispatch went through the whole loop with a car that supplied no
\* target and took the cached one, its seconds_in_traffic replaced, and a
\* car without cache entry
C18_Witness ==
    /\ MergeOver /\ ~MergeFailed
    /\ \E i, j \in 1..Len(cars) :
           /\ cached_car(seen.cars_cache, input[i]) # 0
           /\ input[i].target_road_id = None
           /\ cars[i].target_road_id # None
           /\ cars[i].seconds_in_traffic # input[i].seconds_in_traffic
           /\ cached_car(seen.cars_cache, input[j]) = 0
           /\ IsAsSent(j)

\* a car of the request has no road object and no next junction
HasLookupMiss(request) ==
    \E i \in 1..Len(request.cars) :
        /\ road(request.cars[i]) = None
        /\ request.cars[i].next_junction_id = None

\* C19: a priority /dispatch with a car whose road is unresolved and which
\* has no next junction is answered with the cars, the car among them with
\* its speed as sent.
C19_LookupMissNotFatal ==
    \A n \in DispatchesAnswered :
        (get_algorithm(log[n].payload.algorithm_name) = "priority" /\ HasLookupMiss(log[n].payload)) =>
            /\ log[n].response.status = 200
            /\ \A i \in 1..Len(log[n].payload.cars) :
                   (road(log[n].payload.cars[i]) = None
                        /\ log[n].payload.cars[i].next_junction_id = None) =>
                       \E k \in 1..Len(log[n].response.body) :
                           /\ log[n].response.body[k].car_id = log[n].payload.cars[i].car_id
                           /\ log[n].response.body[k].speed = log[n].payload.cars[i].speed

\* the roads of the ring of a junction
RingRoads(j) == Range(j.connected_roads_ids)

\* C20 as claimed: when the algorithm is called, for every junction it is
\* handed and every two roads a, b of its ring, a = b included, the segment
\* counts from a to b and from b to a add up to the length of the ring.
C20_CountsAddUpToRing ==
    pc = "call" => \A k \in 1..Len(junctions) :
        \A a, b \in RingRoads(junctions[k]) :
            crossing_segments_count(junctions[k], a, b) + crossing_segments_count(junctions[k], b, a)
                = Len(junctions[k].connected_roads_ids)

\* C20 amended: when the algorithm is called, for every junction it is
\* handed and every two different roads a, b of its ring, the segment counts
\* from a to b and from b to a add up to the length of the ring; from a road
\* to itself the count is 0.
C20_CountsOfDifferentRoadsAddUp ==
    pc = "call" => \A k \in 1..Len(junctions) :
        \A a, b \in RingRoads(junctions[k]) :
            crossing_segments_count(junctions[k], a, b) + crossing_segments_count(junctions[k], b, a)
                = IF a = b THEN 0 ELSE Len(junctions[k].connected_roads_ids)

\* the admission loop has counted the segments of a car that turns from one
\* road of a ring into another, and the count of the way back completes the
\* ring
C20_Witness ==
    \E n \in 1..Len(admissions) :
        LET c == cars[admissions[n].car]
            j == JunctionById(junctions, admissions[n].junction)
        IN  /\ c.road_id \in RingRoads(j)
            /\ c.target_road_id \in RingRoads(j)
            /\ c.road_id # c.target_road_id
            /\ admissions[n].w = crossing_segments_count(j, c.road_id, c.target_road_id)
            /\ admissions[n].w + crossing_segments_count(j, c.target_road_id, c.road_id)
                   = Len(j.connected_roads_ids)

\* the road at position i of a ring, positions counted round the ring from 0
RingAt(ring, i) == ring[(i % Len(ring)) + 1]

\* C21: when the algorithm is called, for every junction it is handed whose
\* ring has four roads and every start road of the ring, the straight
\* crossing (to the road opposite) counts 3 segments and counts more than the
\* right turn (to the road just before the start road in the ring).
C21_StraightWiderThanRightTurn ==
    pc = "call" => \A k \in 1..Len(junctions) :
        LET ring == junctions[k].connected_roads_ids
        IN  Len(ring) = 4 =>
                \A i \in 0..3 :
                    LET straight == crossing_segments_count(junctions[k], RingAt(ring, i), RingAt(ring, i + 2))
                        right_turn == crossing_segments_count(junctions[k], RingAt(ring, i), RingAt(ring, i + 3))
                    IN  /\ straight = 3
                        /\ straight > right_turn

-----------------------------------------------------------------------------
(***************************************************************************)
(* The kinematics of app/utils/distance.py.  The floats of the code are    *)
(* exact fractions [n, d] in lowest terms with d > 0; float('inf') is the  *)
(* fraction 1/0, which the comparisons by cross-multiplication order above *)
(* every finite number.  Rounding of the floats is not modelled.           *)
(***************************************************************************)
RECURSIVE GCD(_, _)
GCD(a, b) == IF b = 0 THEN a ELSE GCD(b, a % b)

Rat(n, d) ==
    LET g == GCD(Abs(n), d)
    IN  [n |-> n \div g, d |-> d \div g]

Inf == [n |-> 1, d |-> 0]

Zero == Rat(0, 1)

Two == Rat(2, 1)

RAdd(x, y) == Rat(x.n * y.d + y.n * x.d, x.d * y.d)

RSub(x, y) == Rat(x.n * y.d - y.n * x.d, x.d * y.d)

RMul(x, y) == IF x.d = 0 \/ y.d = 0 THEN Inf ELSE Rat(x.n * y.n, x.d * y.d)

\* x / y for y # 0
RDiv(x, y) ==
    IF x.d = 0 THEN Inf
    ELSE IF y.n > 0 THEN Rat(x.n * y.d, x.d * y.n)
    ELSE Rat(-(x.n * y.d), x.d * (-y.n))

RAbs(x) == [n |-> Abs(x.n), d |-> x.d]

RNeg(x) == [n |-> -x.n, d |-> x.d]

RLt(x, y) == x.n * y.d < y.n * x.d

RLe(x, y) == ~RLt(y, x)

RMin(x, y) == IF RLt(y, x) THEN y ELSE x

RMax(x, y) == IF RLt(x, y) THEN y ELSE x

\* _required_distance_to_speed
required_distance_to_speed(curr_speed, target_speed, acceleration, deceleration) ==
    IF target_speed = curr_speed THEN Zero
    ELSE
        LET should_accelerate == RLt(curr_speed, target_speed)
        IN  IF should_accelerate /\ RLe(acceleration, Zero) THEN Inf
            ELSE IF ~should_accelerate /\ RLe(deceleration, Zero) /\ ~RLt(acceleration, Zero) THEN Inf
            ELSE
                LET dec == IF ~should_accelerate /\ RLe(deceleration, Zero)
                               THEN RNeg(acceleration) ELSE deceleration
                    a == IF should_accelerate THEN acceleration ELSE dec
                IN  RDiv(RAbs(RSub(RMul(target_speed, target_speed), RMul(curr_speed, curr_speed))),
                         RMul(Two, a))

\* bin_search defaults: max_itr = 5, epsilon = 0.1
MaxItr == 5

Epsilon == Rat(1, 10)

\* max_target_speed default: break_epsilon = 0.25
BreakEpsilon == Rat(1, 4)

One == Rat(1, 1)

\* how a call ended: with a value, or with an exception
Returned(v) == [value |-> v, raised |-> "none"]

Raised(e) == [value |-> Zero, raised |-> e]

\* bin_search of _should_accelerate_to; the division of line 87 raises
\* ZeroDivisionError when curr_speed + mid is 0
RECURSIVE bin_search(_, _, _, _)
bin_search(call, low_speed, high_speed, itr) ==
    LET mid == RDiv(RAdd(low_speed, high_speed), Two)
    IN  IF itr >= MaxItr \/ RLt(high_speed, RMul(low_speed, RAdd(One, Epsilon))) THEN Returned(mid)
        ELSE
            LET distance_accelerating ==
                    required_distance_to_speed(call.curr_speed, mid, call.acceleration, call.deceleration)
                mean_speed == RDiv(RAdd(call.curr_speed, mid), Two)
            IN  IF mean_speed.n = 0 THEN Raised("ZeroDivisionError")
                ELSE
                    LET time_accelerating == RDiv(distance_accelerating, mean_speed)
                    IN  IF RLt(call.duration, time_accelerating) \/ RLt(call.distance, distance_accelerating)
                        THEN bin_search(call, low_speed, mid, itr + 1)
                        ELSE
                            LET time_cruising == RSub(call.duration, time_accelerating)
                                distance_cruising == RMul(mid, time_cruising)
                                traveled_distance == RAdd(distance_accelerating, distance_cruising)
                            IN  IF RLt(traveled_distance, call.distance)
                                THEN IF RLt(RMul(call.distance, RSub(One, Epsilon)), traveled_distance)
                                     THEN Returned(mid)
                                     ELSE bin_search(call, mid, high_speed, itr + 1)
                                ELSE bin_search(call, low_speed, mid, itr + 1)

\* _should_accelerate_to
should_accelerate_to(curr_speed, duration, distance, speed_limit, acceleration, deceleration) ==
    IF RLe(duration, Zero) THEN Raised("RuntimeError")
    ELSE bin_search([curr_speed |-> curr_speed, duration |-> duration, distance |-> distance,
                     acceleration |-> acceleration, deceleration |-> deceleration],
                    Zero, speed_limit, 0)

\* max_target_speed, with break_epsilon at its default
max_target_speed(duration_s, max_distance, speed_limit, curr_speed, acceleration, breaking) ==
    IF RLe(duration_s, Zero) THEN Returned(Zero)
    ELSE IF RLt(curr_speed, speed_limit) /\ RLt(RMul(speed_limit, duration_s), max_distance)
        THEN Returned(speed_limit)
    ELSE
        LET break_distance == RMul(required_distance_to_speed(speed_limit, Zero, Zero, breaking),
                                   RAdd(One, BreakEpsilon))
        IN  IF RLe(max_distance, break_distance) THEN Returned(Zero)
            ELSE
                LET target_speed == should_accelerate_to(curr_speed, duration_s,
                                        RSub(max_distance, break_distance), speed_limit,
                                        acceleration, breaking)
                IN  IF target_speed.raised # "none" THEN target_speed
                    ELSE Returned(RMax(Zero, RMin(target_speed.value, speed_limit)))

\* the arguments of the calls checked: none of them negative
Durations == {Rat(0, 1), Rat(1, 5), Rat(1, 1)}

Distances == {Rat(0, 1), Rat(2, 1), Rat(4, 1), Rat(20, 1)}

SpeedLimits == {Rat(0, 1), Rat(5, 1), Rat(10, 1)}

Speeds == {Rat(0, 1), Rat(5, 1), Rat(12, 1)}

Accelerations == {Rat(0, 1), Rat(2, 1)}

Breakings == {Rat(0, 1), Rat(5, 1)}

\* a call of max_target_speed that has not run yet
KinematicsInit ==
    /\ query_returns = "geometries"
    /\ NoRequest
    /\ \E duration_s \in Durations, max_distance \in Distances, speed_limit \in SpeedLimits,
          curr_speed \in Speeds, acceleration \in Accelerations, breaking \in Breakings :
           kinematics = [pc |-> "called", duration_s |-> duration_s, max_distance |-> max_distance,
                         speed_limit |-> speed_limit, curr_speed |-> curr_speed,
                         acceleration |-> acceleration, breaking |-> breaking,
                         result |-> Returned(Zero)]

\* the call runs to its end
MaxTargetSpeed ==
    /\ kinematics.pc = "called"
    /\ LET result == max_target_speed(kinematics.duration_s, kinematics.max_distance,
                                      kinematics.speed_limit, kinematics.curr_speed,
                                      kinematics.acceleration, kinematics.breaking)
       IN  kinematics' = [kinematics EXCEPT
                              !.pc = IF result.raised = "none" THEN "returned" ELSE "raised",
                              !.result = result]
    /\ UNCHANGED <<store, setup_vars, history, dispatch_vars, query_returns>>

KinematicsNext == MaxTargetSpeed

Kinematics == KinematicsInit /\ [][KinematicsNext]_vars

\* the padded stopping distance of a call: required_distance_to_speed(v_lim, 0, a-) * (1 + eps)
PaddedStoppingDistance(call) ==
    RMul(required_distance_to_speed(call.speed_limit, Zero, Zero, call.breaking),
         RAdd(One, BreakEpsilon))

\* C22: a call of max_target_speed with a positive duration whose padded
\* stopping distance is at least max_distance returns 0, also when
\* curr_speed < speed_limit and speed_limit * duration_s < max_distance.
C22_ZeroWhenStopDoesNotFit ==
    (kinematics.pc \in {"returned", "raised"}
        /\ RLt(Zero, kinematics.duration_s)
        /\ RLe(kinematics.max_distance, PaddedStoppingDistance(kinematics)))
    => (kinematics.pc = "returned" /\ kinematics.result.value = Zero)

\* C23: a call of max_target_speed with arguments that are not negative
\* does not raise and returns a speed between 0 and speed_limit.
C23_TotalAndBounded ==
    kinematics.pc \in {"returned", "raised"} =>
        /\ kinematics.pc = "returned"
        /\ RLe(Zero, kinematics.result.value)
        /\ RLe(kinematics.result.value, kinematics.speed_limit)

\* the admission loop of junction k is over
AdmissionOver(k) == k < jidx \/ (k = jidx /\ pc = "follow")

\* junction k has no occupant among the cars of the call
NoOccupant(k) ==
    \A i \in 1..Len(cars) :
        cars[i].next_junction_id = junctions[k].junction_id => ~is_occupant(junctions[k], cars[i])

\* the candidates of junction k: the first car of each road within the
\* buffer zone
Candidates(k) ==
    Range(waiting_cars_of(cars, road_cars_of(cars, junctions[k]), JunctionBufferZone))

\* the positions in the admission history of the cars popped at junction k
Popped(k) == {n \in 1..Len(admissions) : admissions[n].junction = junctions[k].junction_id}

\* C24: in a priority tick, at a junction with no occupant whose admission
\* loop is over, the candidates were popped in descending order of their
\* priority score, the first one popped was admitted, and every candidate
\* was popped exactly once.
C24_AdmissionOrderAndProgress ==
    (pc \in {"junction", "admit", "follow"}) =>
        \A k \in 1..Len(junctions) :
            (AdmissionOver(k) /\ NoOccupant(k)) =>
                /\ \A n, m \in Popped(k) : n < m => admissions[n].score >= admissions[m].score
                /\ \A n \in Popped(k) : (\A m \in Popped(k) : n <= m) => admissions[n].admitted
                /\ {admissions[n].car : n \in Popped(k)} = Candidates(k)
                /\ \A n, m \in Popped(k) : admissions[n].car = admissions[m].car => n = m
                /\ Candidates(k) # {} => \E n \in Popped(k) : admissions[n].admitted

\* the admission loop of a junction without occupant is over; it popped two
\* candidates of different scores, admitted the first and refused the second
C24_Witness ==
    /\ pc = "follow"
    /\ NoOccupant(jidx)
    /\ \E n, m \in Popped(jidx) :
           /\ n < m
           /\ admissions[n].score > admissions[m].score
           /\ admissions[n].admitted
           /\ ~admissions[m].admitted
           /\ {admissions[n].car, admissions[m].car} = Candidates(jidx)

\* the cars of entry r of road_cars as the sort of line 99 left them, before
\* the road-following loop popped any
WholeBucket(r) == road_cars_of(cars, junctions[jidx])[r].cars_on_road

\* the car of entry r of road_cars that the road-following loop popped last
LastFollowed(r) == WholeBucket(r)[Len(WholeBucket(r)) - Len(road_cars[r].cars_on_road)]

\* C25: in the road-following loop of a priority tick, once a car of a road
\* has been processed, the previous speed and the previous distance kept for
\* that road are the speed that car leaves with and its distance to the
\* junction, so the next car of the road is compared with them.
C25_FollowingChains ==
    (algorithm = "priority" /\ pc = "follow") =>
        \A r \in 1..Len(road_cars) :
            Len(road_cars[r].cars_on_road) < Len(WholeBucket(r)) =>
                /\ prev_car_speed_per_road[road_cars[r].road_id] = cars[LastFollowed(r)].speed
                /\ prev_car_distance_per_road[road_cars[r].road_id]
                       = distance_from_next_junction(cars[LastFollowed(r)])

\* the spatial index of the stored network has a road at the point of car c
NearRoad(c) == Len(possible_roads(state_roads, c.x, c.y)) > 0

\* C26: when the network has roads, /dispatch gets as far as calling the
\* algorithm, and every car it hands over that the spatial index has a road
\* for carries that road and its next junction, with or without an entry in
\* the car cache.
C26_RoadsResolvedBeforeCall ==
    (via = "route" /\ pc \in {"call", "failed"} /\ Len(state_roads) > 0) =>
        /\ pc = "call"
        /\ \A i \in 1..Len(cars) :
               NearRoad(cars[i]) => (road(cars[i]) # None /\ has_next_junction(cars[i]))

\* C27: every entry of the car cache has seconds_in_traffic 0, and every car
\* with a cache entry that /dispatch hands to the algorithm has
\* seconds_in_traffic 0, so the same waiting-time weight as any other cached
\* car, whatever the client reported.
C27_WaitingTimeNeverAccumulates ==
    /\ \A n \in 1..Len(state_cars_cache) : state_cars_cache[n].seconds_in_traffic = 0
    /\ (via = "route" /\ pc = "call") =>
           \A i \in 1..Len(cars) :
               cached_car(seen.cars_cache, input[i]) # 0 =>
                   /\ cars[i].seconds_in_traffic = 0
                   /\ exponential(cars[i].seconds_in_traffic, WaitingCap) = exponential(0, WaitingCap)

\* /dispatch is about to call the algorithm with a cached car that reported
\* a waiting time and no longer carries it
C27_Witness ==
    /\ via = "route" /\ pc = "call"
    /\ \E i \in 1..Len(cars) :
           /\ cached_car(seen.cars_cache, input[i]) # 0
           /\ input[i].seconds_in_traffic > 0
           /\ cars[i].seconds_in_traffic = 0

\* the entries of car_id in a cache, as positions
EntriesOf(cache, car_id) == {n \in 1..Len(cache) : cache[n].car_id = car_id}

\* the target road of the earliest entry of car_id in a cache that has one
EarliestTarget(cache, car_id) ==
    cache[CHOOSE n \in EntriesOf(cache, car_id) : \A m \in EntriesOf(cache, car_id) : n <= m].target_road_id

\* C28: a /setup without overwrite appends one cache entry per car target
\* and leaves the earliest entry of every car already cached as it was, and
\* a cached car that names no target is handed to the algorithm with the
\* target of its earliest entry.
C28_FirstCacheEntryWins ==
    /\ \A n \in SetupsAnswered :
           ~log[n].payload.overwrite =>
               /\ Len(log[n].after.cars_cache)
                      = Len(log[n].before.cars_cache) + Len(log[n].payload.car_targets)
               /\ \A m \in 1..Len(log[n].before.cars_cache) :
                      EarliestTarget(log[n].after.cars_cache, log[n].before.cars_cache[m].car_id)
                          = EarliestTarget(log[n].before.cars_cache, log[n].before.cars_cache[m].car_id)
    /\ (via = "route" /\ pc = "call") =>
           \A i \in 1..Len(cars) :
               (EntriesOf(seen.cars_cache, input[i].car_id) # {} /\ input[i].target_road_id = None) =>
                   cars[i].target_road_id = EarliestTarget(seen.cars_cache, input[i].car_id)

\* /dispatch is about to call the algorithm with a car that named no target
\* and has two cache entries with different targets, the later one appended
\* by a /setup without overwrite; the car carries the target of the earlier
C28_Witness ==
    /\ via = "route" /\ pc = "call"
    /\ \E n \in SetupsAnswered : ~log[n].payload.overwrite
    /\ \E i \in 1..Len(cars) :
           /\ input[i].target_road_id = None
           /\ \E a, b \in EntriesOf(seen.cars_cache, input[i].car_id) :
                  /\ a < b
                  /\ seen.cars_cache[a].target_road_id # seen.cars_cache[b].target_road_id
                  /\ cars[i].target_road_id = seen.cars_cache[a].target_road_id

\* C29: in the admission loop of a priority tick, a candidate whose
\* crossing_segments_count is 0 is admitted whatever segments are taken, and
\* the taken segments are the same after it as before it.
C29_ZeroWidthBypassesExclusion ==
    \A n \in 1..Len(admissions) :
        admissions[n].w = 0 =>
            /\ admissions[n].admitted
            /\ admissions[n].taken_after = admissions[n].taken_before

\* at one junction a car of width 1 or more was admitted and, with its
\* segments taken, a car of width 0 was admitted after it
C29_Witness ==
    \E n, m \in 1..Len(admissions) :
        /\ n < m
        /\ admissions[n].junction = admissions[m].junction
        /\ admissions[n].w >= 1 /\ admissions[n].admitted
        /\ admissions[m].w = 0 /\ admissions[m].admitted
        /\ admissions[m].taken_before # {}
        /\ admissions[m].taken_after = admissions[m].taken_before

=============================================================================
